---- MODULE Spec2Model ----
(***************************************************************************)
(* MuseAir 0.2 (museair.h): the four hash entry points, modelled stage by  *)
(* stage, and the SMHasher3 verification sweep of selftests.c.             *)
(*                                                                         *)
(* A uint64_t is a tuple of 8 bytes, least significant byte first, so that *)
(* every operation is exact modulo 2^64 and the 64x64->128 product is      *)
(* exact.  A byte buffer is a sequence; C offset o is element o + 1.       *)
(***************************************************************************)
EXTENDS Integers, Sequences, FiniteSets, TLC

(***************************************************************************)
(* Bounds of the model.                                                    *)
(***************************************************************************)
MaxLen == 200

(***************************************************************************)
(* uint64_t arithmetic.  A value that is used more than once is handed to  *)
(* an operator as its argument, so that it is written, and evaluated, once.*)
(***************************************************************************)
RECURSIVE XorByte(_, _)
\* a ^ b on 8-bit values, bit by bit; C's ^ has no arithmetic counterpart in TLA+.
XorByte(a, b) ==
    IF a = 0 THEN b
    ELSE IF b = 0 THEN a
    ELSE ((a + b) % 2) + 2 * XorByte(a \div 2, b \div 2)

\* a + b = (a ^ b) + 2 * (a & b)  and  a | b = (a ^ b) + (a & b)
AndByte(a, b) == (a + b - XorByte(a, b)) \div 2
OrByte(a, b) == (a + b + XorByte(a, b)) \div 2

Xor(a, b) ==
    <<XorByte(a[1], b[1]), XorByte(a[2], b[2]), XorByte(a[3], b[3]), XorByte(a[4], b[4]),
      XorByte(a[5], b[5]), XorByte(a[6], b[6]), XorByte(a[7], b[7]), XorByte(a[8], b[8])>>

And(a, b) ==
    <<AndByte(a[1], b[1]), AndByte(a[2], b[2]), AndByte(a[3], b[3]), AndByte(a[4], b[4]),
      AndByte(a[5], b[5]), AndByte(a[6], b[6]), AndByte(a[7], b[7]), AndByte(a[8], b[8])>>

Or(a, b) ==
    <<OrByte(a[1], b[1]), OrByte(a[2], b[2]), OrByte(a[3], b[3]), OrByte(a[4], b[4]),
      OrByte(a[5], b[5]), OrByte(a[6], b[6]), OrByte(a[7], b[7]), OrByte(a[8], b[8])>>

Not(a) ==
    <<255 - a[1], 255 - a[2], 255 - a[3], 255 - a[4],
      255 - a[5], 255 - a[6], 255 - a[7], 255 - a[8]>>

RECURSIVE AddFrom(_, _, _, _)
\* the bytes n..8 of a + b, c being the carry into byte n
AddFrom(a, b, n, c) ==
    IF n > 8 THEN <<>>
    ELSE <<(a[n] + b[n] + c) % 256>> \o AddFrom(a, b, n + 1, (a[n] + b[n] + c) \div 256)

\* a + b modulo 2^64
Add(a, b) == AddFrom(a, b, 1, 0)

RECURSIVE SubFrom(_, _, _, _)
\* the bytes n..8 of a - b, c being the borrow (0 or -1) into byte n;
\* % and \div round towards minus infinity
SubFrom(a, b, n, c) ==
    IF n > 8 THEN <<>>
    ELSE <<(a[n] - b[n] + c) % 256>> \o SubFrom(a, b, n + 1, (a[n] - b[n] + c) \div 256)

\* a - b modulo 2^64
Sub(a, b) == SubFrom(a, b, 1, 0)

\* byte k (from 0) of v, zero outside the word
ByteOf(v, k) == IF k >= 0 /\ k <= 7 THEN v[k + 1] ELSE 0

Pow2(r) == 2 ^ r

\* v << n and v >> n for 0 <= n <= 63
Shl(v, n) ==
    LET s == n \div 8
        r == n % 8
        out(k) == ((ByteOf(v, k - s) * Pow2(r)) % 256) + (ByteOf(v, k - s - 1) \div Pow2(8 - r))
    IN  <<out(0), out(1), out(2), out(3), out(4), out(5), out(6), out(7)>>

Shr(v, n) ==
    LET s == n \div 8
        r == n % 8
        out(k) == (ByteOf(v, k + s) \div Pow2(r)) + ((ByteOf(v, k + s + 1) * Pow2(8 - r)) % 256)
    IN  <<out(0), out(1), out(2), out(3), out(4), out(5), out(6), out(7)>>

\* (uint64_t)n for a size_t or int n that the model keeps below 2^31
U64(n) ==
    <<n % 256, (n \div 256) % 256, (n \div 65536) % 256, (n \div 16777216) % 256, 0, 0, 0, 0>>

\* the uint64_t written as four 16-bit groups, most significant first
W64(h3, h2, h1, h0) ==
    <<h0 % 256, h0 \div 256, h1 % 256, h1 \div 256,
      h2 % 256, h2 \div 256, h3 % 256, h3 \div 256>>

MUSEAIR_SECRET ==
    << W64(\h5ae3, \h1e58, \h9c56, \he17a), W64(\h96d7, \hbb04, \he64f, \h6da9),
       W64(\h7ab1, \h006b, \h26f9, \heb64), W64(\h2123, \h3394, \h220b, \h8457),
       W64(\h047c, \hb955, \h7c9f, \h3b43), W64(\hd24f, \h2590, \hc0bc, \hee28) >>

MUSEAIR_RING_PREV == W64(\h33ea, \h8f71, \hbb60, \h16d8)

\* MUSEAIR_SECRET[n] with the C index n = 0..5
SECRET(n) == MUSEAIR_SECRET[n + 1]

(***************************************************************************)
(* Leaf primitives.                                                        *)
(***************************************************************************)
_museair_bswap_64(v) == <<v[8], v[7], v[6], v[5], v[4], v[3], v[2], v[1]>>

_museair_bswap_32(v) == <<v[4], v[3], v[2], v[1]>>

\* The byte at C offset o.  Outside the buffer the C read is undefined; every
\* read is recorded in rd, and the model never relies on the value chosen here.
ByteAt(bytes, o) == IF o >= 0 /\ o < Len(bytes) THEN bytes[o + 1] ELSE 0

\* memcpy(&v, &p[0], n): the value the host sees in v.  A little-endian host
\* (BSWAP = 0) takes the first byte as least significant, a big-endian host
\* (BSWAP = 1) as most significant.
memcpy(BSWAP, bytes, o, n) ==
    IF BSWAP = 0
    THEN [x \in 1..n |-> ByteAt(bytes, o + x - 1)]
    ELSE [x \in 1..n |-> ByteAt(bytes, o + n - x)]

_museair_read_u64(BSWAP, bytes, o) ==
    LET Swapped(v) == IF BSWAP > 0 THEN _museair_bswap_64(v) ELSE v
        Value(m) == Swapped(<<m[1], m[2], m[3], m[4], m[5], m[6], m[7], m[8]>>)
    IN  [v |-> Value(memcpy(BSWAP, bytes, o, 8)),
         rd |-> o .. (o + 7)]

_museair_read_u32(BSWAP, bytes, o) ==
    LET Widened(w) == <<w[1], w[2], w[3], w[4], 0, 0, 0, 0>>
        Swapped(v) == Widened(IF BSWAP > 0 THEN _museair_bswap_32(v) ELSE v)
        Value(m) == Swapped(<<m[1], m[2], m[3], m[4]>>)
    IN  [v |-> Value(memcpy(BSWAP, bytes, o, 4)),
         rd |-> o .. (o + 3)]

_museair_rotl(v, n) == Or(Shl(v, n), Shr(v, (64 - n) % 64))

_museair_rotr(v, n) == Or(Shr(v, n), Shl(v, (64 - n) % 64))

RECURSIVE Column(_, _, _, _)
\* the byte products a[x] * b[y] of weight 256^k (x + y = k + 2), from x on
Column(a, b, k, x) ==
    IF x > 8 THEN 0
    ELSE (IF k + 2 - x >= 1 /\ k + 2 - x <= 8 THEN a[x] * b[k + 2 - x] ELSE 0)
         + Column(a, b, k, x + 1)

RECURSIVE Product(_, _, _, _)
\* the bytes k..15 of a * b, s being column k plus the carry into it
Product(a, b, k, s) ==
    IF k = 15 THEN <<s % 256>>
    ELSE <<s % 256>> \o Product(a, b, k + 1, Column(a, b, k + 1, 1) + (s \div 256))

\* the exact 128-bit product of a and b, as its low and high 64 bits
_museair_wmul(a, b) ==
    LET Halves(m) == [lo |-> SubSeq(m, 1, 8), hi |-> SubSeq(m, 9, 16)]
    IN  Halves(Product(a, b, 0, Column(a, b, 0, 1)))

\* chixx without the complements: t ^ (u & v), u ^ (v & t), v ^ (t & u)
_museair_chixx_NoComplement(t, u, v) ==
    [t |-> Xor(t, And(u, v)),
     u |-> Xor(u, And(v, t)),
     v |-> Xor(v, And(t, u))]

\* x, y, z are all computed from the incoming t, u, v
_museair_chixx(t, u, v) ==
    [t |-> Xor(t, And(Not(u), v)),
     u |-> Xor(u, And(Not(v), t)),
     v |-> Xor(v, And(Not(t), u))]

\* the shift of line 136 left out: off = len & 24
ReadShortOff_Unshifted(len) == (len % 32) - (len % 8)

\* line 136: (len & 24) >> (len >> 3), for 4 <= len <= 16
ReadShortOff(len) == ((len % 32) - (len % 8)) \div Pow2(len \div 8)

\* the 4-byte reads taken from 3 bytes on: len >= 3 in place of len >= 4
_museair_read_short_From3(BSWAP, bytes, p, len) ==
    LET Packed(a, b, c, d) ==
            [i |-> Or(Shl(a.v, 32), b.v),
             j |-> Or(Shl(c.v, 32), d.v),
             rd |-> a.rd \cup b.rd \cup c.rd \cup d.rd]
    IN  IF len >= 3
        THEN Packed(_museair_read_u32(BSWAP, bytes, p),
                    _museair_read_u32(BSWAP, bytes, p + len - 4),
                    _museair_read_u32(BSWAP, bytes, p + ReadShortOff(len)),
                    _museair_read_u32(BSWAP, bytes, p + len - 4 - ReadShortOff(len)))
        ELSE IF len > 0
        THEN [i |-> Or(Or(Shl(U64(ByteAt(bytes, p)), 48),
                          Shl(U64(ByteAt(bytes, p + (len \div 2))), 24)),
                       U64(ByteAt(bytes, p + len - 1))),
              j |-> U64(0),
              rd |-> {p, p + (len \div 2), p + len - 1}]
        ELSE [i |-> U64(0), j |-> U64(0), rd |-> {}]

\* *i, *j and the offsets read, for the len bytes at bytes + p
_museair_read_short(BSWAP, bytes, p, len) ==
    LET Packed(a, b, c, d) ==
            [i |-> Or(Shl(a.v, 32), b.v),
             j |-> Or(Shl(c.v, 32), d.v),
             rd |-> a.rd \cup b.rd \cup c.rd \cup d.rd]
    IN  IF len >= 4
        THEN Packed(_museair_read_u32(BSWAP, bytes, p),
                    _museair_read_u32(BSWAP, bytes, p + len - 4),
                    _museair_read_u32(BSWAP, bytes, p + ReadShortOff(len)),
                    _museair_read_u32(BSWAP, bytes, p + len - 4 - ReadShortOff(len)))
        ELSE IF len > 0
        THEN [i |-> Or(Or(Shl(U64(ByteAt(bytes, p)), 48),
                          Shl(U64(ByteAt(bytes, p + (len \div 2))), 24)),
                       U64(ByteAt(bytes, p + len - 1))),
              j |-> U64(0),
              rd |-> {p, p + (len \div 2), p + len - 1}]
        ELSE [i |-> U64(0), j |-> U64(0), rd |-> {}]

_museair_frac_6(BFast, state_p, state_q, input_p, input_q) ==
    LET Mixed(sp, sq) ==
            LET Folded(m) ==
                    IF ~BFast
                    THEN [p |-> Xor(sp, m.lo), q |-> Xor(sq, m.hi)]
                    ELSE [p |-> m.lo, q |-> m.hi]
            IN  Folded(_museair_wmul(sp, sq))
    IN  Mixed(Xor(state_p, input_p), Xor(state_q, input_q))

\* the two halves of the product stored the other way round
_museair_frac_3_Swapped(BFast, state_p, state_q, input) ==
    LET Mixed(sq) ==
            LET Folded(m) ==
                    IF ~BFast
                    THEN [p |-> Xor(state_p, m.hi), q |-> Xor(sq, m.lo)]
                    ELSE [p |-> m.hi, q |-> m.lo]
            IN  Folded(_museair_wmul(state_p, sq))
    IN  Mixed(Xor(state_q, input))

_museair_frac_3(BFast, state_p, state_q, input) ==
    LET Mixed(sq) ==
            LET Folded(m) ==
                    IF ~BFast
                    THEN [p |-> Xor(state_p, m.lo), q |-> Xor(sq, m.hi)]
                    ELSE [p |-> m.lo, q |-> m.hi]
            IN  Folded(_museair_wmul(state_p, sq))
    IN  Mixed(Xor(state_q, input))

(***************************************************************************)
(* The block compressor.  state is the tuple of the six state words, C's   *)
(* state[n] being state[n + 1]; p is the offset of the block in bytes.     *)
(***************************************************************************)
\* the fast variant updating as the full one does
Layer12Update_FastAdds(BFast, mixed, carry, hi) == Add(mixed, Xor(carry, hi))

\* the first state word of a pair after its update, from the input-mixed word
\* `mixed`, the ring carry coming in and the high half of the pair's product
Layer12Update(BFast, mixed, carry, hi) ==
    IF ~BFast THEN Add(mixed, Xor(carry, hi)) ELSE Xor(carry, hi)

\* one pair of the block: the two state words sa, sb take their input words,
\* the product of the two is formed, and the first takes the ring carry
Layer12Pair(BFast, sa, sb, wa, wb, carry) ==
    LET Mixed(a, b) ==
            LET Updated(m) ==
                    [first |-> Layer12Update(BFast, a, carry, m.hi),
                     second |-> b, lo |-> m.lo, hi |-> m.hi]
            IN  Updated(_museair_wmul(a, b))
    IN  Mixed(Xor(sa, wa), Xor(sb, wb))

_museair_layer_12(BFast, BSWAP, state, bytes, p, ring_prev) ==
    LET w(n) == _museair_read_u64(BSWAP, bytes, p + 8 * n).v
        Block(c0, c1, c2, c3, c4, c5) ==
            [lo |-> <<c0.lo, c1.lo, c2.lo, c3.lo, c4.lo, c5.lo>>,
             hi |-> <<c0.hi, c1.hi, c2.hi, c3.hi, c4.hi, c5.hi>>,
             state |-> <<c5.second, c1.first, c2.first, c3.first, c4.first, c5.first>>,
             ring_prev |-> c5.lo,
             rd |-> UNION {_museair_read_u64(BSWAP, bytes, p + 8 * n).rd : n \in 0..11}]
        Pair5(c0, c1, c2, c3, c4) ==
            Block(c0, c1, c2, c3, c4,
                  Layer12Pair(BFast, c4.second, c0.first, w(10), w(11), c4.lo))
        Pair4(c0, c1, c2, c3) ==
            Pair5(c0, c1, c2, c3,
                  Layer12Pair(BFast, c3.second, state[6], w(8), w(9), c3.lo))
        Pair3(c0, c1, c2) ==
            Pair4(c0, c1, c2, Layer12Pair(BFast, c2.second, state[5], w(6), w(7), c2.lo))
        Pair2(c0, c1) ==
            Pair3(c0, c1, Layer12Pair(BFast, c1.second, state[4], w(4), w(5), c1.lo))
        Pair1(c0) ==
            Pair2(c0, Layer12Pair(BFast, c0.second, state[3], w(2), w(3), c0.lo))
    IN  Pair1(Layer12Pair(BFast, state[1], state[2], w(0), w(1), ring_prev))

_museair_layer_6(BFast, BSWAP, state, bytes, p) ==
    LET w(n) == _museair_read_u64(BSWAP, bytes, p + 8 * n).v
        Block(f01, f23, f45) ==
            [state |-> <<f01.p, f01.q, f23.p, f23.q, f45.p, f45.q>>,
             rd |-> UNION {_museair_read_u64(BSWAP, bytes, p + 8 * n).rd : n \in 0..5}]
    IN  Block(_museair_frac_6(BFast, state[1], state[2], w(0), w(1)),
              _museair_frac_6(BFast, state[3], state[4], w(2), w(3)),
              _museair_frac_6(BFast, state[5], state[6], w(4), w(5)))

_museair_layer_3(BFast, BSWAP, state, bytes, p) ==
    LET w(n) == _museair_read_u64(BSWAP, bytes, p + 8 * n).v
        Block(f03, f14, f25) ==
            [state |-> <<f03.p, f14.p, f25.p, f03.q, f14.q, f25.q>>,
             rd |-> UNION {_museair_read_u64(BSWAP, bytes, p + 8 * n).rd : n \in 0..2}]
    IN  Block(_museair_frac_3(BFast, state[1], state[4], w(0)),
              _museair_frac_3(BFast, state[2], state[5], w(1)),
              _museair_frac_3(BFast, state[3], state[6], w(2)))

\* lines 298-308: the words the tail fold starts from; q bytes remain at offset p
Layer0Read(BSWAP, bytes, p, q) ==
    LET Short(r) == [i |-> r.i, j |-> r.j, k |-> U64(0), rd |-> r.rd]
        Words(a, b, c) == [i |-> a.v, j |-> b.v, k |-> c.v, rd |-> a.rd \cup b.rd \cup c.rd]
    IN  IF q <= 8 * 2
        THEN Short(_museair_read_short(BSWAP, bytes, p, q))
        ELSE Words(_museair_read_u64(BSWAP, bytes, p),
                   _museair_read_u64(BSWAP, bytes, p + 8),
                   _museair_read_u64(BSWAP, bytes, p + q - 8))

\* the branch decided on the bytes that remain
Layer0Chi_OnRemaining(q, len) == q >= 8 * 3

\* line 310: the fold mixes all six state words
Layer0Chi(q, len) == len >= 8 * 3

\* the tail fold; len is the length of the whole input
_museair_layer_0(BSWAP, state, bytes, p, q, len) ==
    LET Chi(in, x, y) ==
            [i |-> Xor(in.i, Add(x.t, y.t)),
             j |-> Xor(in.j, Add(x.u, y.u)),
             k |-> Xor(in.k, Add(x.v, y.v)),
             state |-> <<x.t, y.t, x.u, y.u, x.v, y.v>>,
             rd |-> in.rd]
        Fold(in) ==
            IF Layer0Chi(q, len)
            THEN Chi(in, _museair_chixx(state[1], state[3], state[5]),
                         _museair_chixx(state[2], state[4], state[6]))
            ELSE [i |-> Xor(in.i, state[1]),
                  j |-> Xor(in.j, state[2]),
                  k |-> Xor(in.k, state[3]),
                  state |-> state,
                  rd |-> in.rd]
    IN  Fold(Layer0Read(BSWAP, bytes, p, q))

\* the length XORed into k before ChiMix
LayerFTwist_XorFirst(len, i, j, k) ==
    LET Rotated(c, rot) ==
            [i |-> _museair_rotl(c.t, rot),
             j |-> _museair_rotr(c.u, rot),
             k |-> c.v]
    IN  Rotated(_museair_chixx(i, j, Xor(k, U64(len))), len % 64)

\* lines 324-328: ChiMix, the two rotations by (uint8_t)len & 63, then the
\* length into k
LayerFTwist(len, i, j, k) ==
    LET Rotated(c, rot) ==
            [i |-> _museair_rotl(c.t, rot),
             j |-> _museair_rotr(c.u, rot),
             k |-> Xor(c.v, U64(len))]
    IN  Rotated(_museair_chixx(i, j, k), len % 64)

\* lines 330-346: the three products folded back crosswise
LayerFMul(BFast, i, j, k) ==
    LET Full(m0, m1, m2) ==
            [i |-> Xor(i, Xor(m0.lo, m2.hi)),
             j |-> Xor(j, Xor(m1.lo, m0.hi)),
             k |-> Xor(k, Xor(m2.lo, m1.hi))]
        Fast(m0, m1, m2) ==
            [i |-> Xor(m0.lo, m2.hi),
             j |-> Xor(m1.lo, m0.hi),
             k |-> Xor(m2.lo, m1.hi)]
    IN  IF ~BFast
        THEN Full(_museair_wmul(Xor(i, SECRET(3)), j),
                  _museair_wmul(Xor(j, SECRET(4)), k),
                  _museair_wmul(Xor(k, SECRET(5)), i))
        ELSE Fast(_museair_wmul(i, j), _museair_wmul(j, k), _museair_wmul(k, i))

_museair_layer_f(BFast, len, i, j, k) ==
    LET Multiplied(t) == LayerFMul(BFast, t.i, t.j, t.k)
    IN  Multiplied(LayerFTwist(len, i, j, k))

(***************************************************************************)
(* The short tower and the epilogues.                                      *)
(***************************************************************************)
_museair_tower_short(BSWAP, bytes, len, seed) ==
    LET Tower(r, m) ==
            [i |-> Xor(r.i, Xor(m.lo, U64(len))),
             j |-> Xor(r.j, Xor(m.hi, seed)),
             rd |-> r.rd]
    IN  Tower(_museair_read_short(BSWAP, bytes, 0, len),
              _museair_wmul(Xor(seed, SECRET(0)), Xor(U64(len), SECRET(1))))

_museair_epi_short(i, j) ==
    LET Second(i2, j2) ==
            LET Out(m2) == [i |-> Xor(i2, Xor(Xor(j2, m2.lo), m2.hi)), j |-> j2]
            IN  Out(_museair_wmul(i2, j2))
        First(i1, j1) ==
            LET Mid(m1) == Second(Xor(i1, Xor(m1.lo, SECRET(4))),
                                  Xor(j1, Xor(m1.hi, SECRET(5))))
            IN  Mid(_museair_wmul(i1, j1))
    IN  First(Xor(i, SECRET(2)), Xor(j, SECRET(3)))

_museair_epi_short_128(BFast, i, j) ==
    LET FullSecond(i1, j1) ==
            LET Out(b0, b1) ==
                    [i |-> Xor(i1, Xor(b0.lo, b1.hi)), j |-> Xor(j1, Xor(b1.lo, b0.hi))]
            IN  Out(_museair_wmul(Xor(i1, SECRET(4)), j1),
                    _museair_wmul(i1, Xor(j1, SECRET(5))))
        FullFirst(a0, a1) ==
            FullSecond(Xor(i, Xor(a0.lo, a1.hi)), Xor(j, Xor(a1.lo, a0.hi)))
        FastSecond(i1, j1) ==
            LET Out(b0, b1) == [i |-> Xor(b0.lo, b1.hi), j |-> Xor(b1.lo, b0.hi)]
            IN  Out(_museair_wmul(i1, j1),
                    _museair_wmul(Xor(i1, SECRET(4)), Xor(j1, SECRET(5))))
        FastFirst(a0, a1) ==
            FastSecond(Xor(a0.lo, a1.hi), Xor(a1.lo, a0.hi))
    IN  IF ~BFast
        THEN FullFirst(_museair_wmul(Xor(i, SECRET(2)), j),
                       _museair_wmul(i, Xor(j, SECRET(3))))
        ELSE FastFirst(_museair_wmul(i, j),
                       _museair_wmul(Xor(i, SECRET(2)), Xor(j, SECRET(3))))

_museair_epi_loong(BFast, i, j, k) ==
    LET Summed(r) == [i |-> Add(r.i, Add(r.j, r.k)), j |-> r.j, k |-> r.k]
        Full(m0, m1, m2) ==
            Summed([i |-> Xor(i, Xor(m0.lo, m2.hi)),
                    j |-> Xor(j, Xor(m1.lo, m0.hi)),
                    k |-> Xor(k, Xor(m2.lo, m1.hi))])
        Fast(m0, m1, m2) ==
            Summed([i |-> Xor(m0.lo, m2.hi),
                    j |-> Xor(m1.lo, m0.hi),
                    k |-> Xor(m2.lo, m1.hi)])
    IN  IF ~BFast
        THEN Full(_museair_wmul(Xor(i, SECRET(0)), j),
                  _museair_wmul(Xor(j, SECRET(1)), k),
                  _museair_wmul(Xor(k, SECRET(2)), i))
        ELSE Fast(_museair_wmul(i, j), _museair_wmul(j, k), _museair_wmul(k, i))

_museair_epi_loong_128(BFast, i, j, k) ==
    LET Full(m0, m1, m2) ==
            [i |-> Xor(i, Xor(Xor(m0.lo, m1.lo), m2.hi)),
             j |-> Xor(j, Xor(Xor(m0.hi, m1.hi), m2.lo)),
             k |-> k]
        Fast(m0, m1, m2) ==
            [i |-> Xor(Xor(m0.lo, m1.lo), m2.hi),
             j |-> Xor(Xor(m0.hi, m1.hi), m2.lo),
             k |-> k]
    IN  IF ~BFast
        THEN Full(_museair_wmul(Xor(i, SECRET(0)), j),
                  _museair_wmul(Xor(j, SECRET(1)), k),
                  _museair_wmul(Xor(k, SECRET(2)), i))
        ELSE Fast(_museair_wmul(i, j), _museair_wmul(j, k), _museair_wmul(k, i))

(***************************************************************************)
(* _museair_tower_loong, statement by statement.  A frame holds its locals *)
(* p, q, state and ring_prev; rd is what the statement read.               *)
(***************************************************************************)
\* a local that is declared and not yet assigned
Uninit == <<>>

\* all six state words seeded whatever the length
TowerInit_AllSeeded(len, seed) ==
    [p |-> 0, q |-> len,
     state |-> <<Add(SECRET(0), seed), Sub(SECRET(1), seed), Xor(SECRET(2), seed),
                 Add(SECRET(3), seed), Sub(SECRET(4), seed), Xor(SECRET(5), seed)>>,
     ring_prev |-> IF len >= 8 * 12 THEN MUSEAIR_RING_PREV ELSE Uninit]

\* lines 358-368: p, q, the seeded state; state[3..5] take the seed and
\* ring_prev exists only when the 12-word loop is entered
TowerInit(len, seed) ==
    LET Entered(s) ==
            IF len >= 8 * 12
            THEN [p |-> 0, q |-> len,
                  state |-> <<s[1], s[2], s[3],
                              Add(s[4], seed), Sub(s[5], seed), Xor(s[6], seed)>>,
                  ring_prev |-> MUSEAIR_RING_PREV]
            ELSE [p |-> 0, q |-> len, state |-> s, ring_prev |-> Uninit]
    IN  Entered(<<Add(SECRET(0), seed), Sub(SECRET(1), seed), Xor(SECRET(2), seed),
                  SECRET(3), SECRET(4), SECRET(5)>>)

\* lines 370-372: one pass of the do-while body
Loop12Body(BFast, BSWAP, bytes, f) ==
    LET Advanced(r) ==
            [p |-> f.p + 8 * 12, q |-> f.q - 8 * 12, state |-> r.state,
             ring_prev |-> r.ring_prev, lo |-> r.lo, hi |-> r.hi, rd |-> r.rd]
    IN  Advanced(_museair_layer_12(BFast, BSWAP, f.state, bytes, f.p, f.ring_prev))

\* line 373: the loop goes round again
Loop12Again(q) == q >= 8 * 12

\* the fold taking the constant the ring starts from, not the carry of the last block
RingClose_Constant(f) ==
    [p |-> f.p, q |-> f.q,
     state |-> <<Xor(f.state[1], MUSEAIR_RING_PREV), f.state[2], f.state[3],
                 f.state[4], f.state[5], f.state[6]>>,
     ring_prev |-> f.ring_prev]

\* line 374
RingClose(f) ==
    [p |-> f.p, q |-> f.q,
     state |-> <<Xor(f.state[1], f.ring_prev), f.state[2], f.state[3],
                 f.state[4], f.state[5], f.state[6]>>,
     ring_prev |-> f.ring_prev]

\* the 6-word block entered only when more than 48 bytes remain
Stage6_Above48(BFast, BSWAP, bytes, f) ==
    LET Advanced(r) ==
            [p |-> f.p + 8 * 6, q |-> f.q - 8 * 6, state |-> r.state,
             ring_prev |-> f.ring_prev, rd |-> r.rd, ran |-> TRUE]
    IN  IF f.q > 8 * 6
        THEN Advanced(_museair_layer_6(BFast, BSWAP, f.state, bytes, f.p))
        ELSE [p |-> f.p, q |-> f.q, state |-> f.state,
              ring_prev |-> f.ring_prev, rd |-> {}, ran |-> FALSE]

\* lines 377-381
Stage6(BFast, BSWAP, bytes, f) ==
    LET Advanced(r) ==
            [p |-> f.p + 8 * 6, q |-> f.q - 8 * 6, state |-> r.state,
             ring_prev |-> f.ring_prev, rd |-> r.rd, ran |-> TRUE]
    IN  IF f.q >= 8 * 6
        THEN Advanced(_museair_layer_6(BFast, BSWAP, f.state, bytes, f.p))
        ELSE [p |-> f.p, q |-> f.q, state |-> f.state,
              ring_prev |-> f.ring_prev, rd |-> {}, ran |-> FALSE]

\* lines 383-387
Stage3(BFast, BSWAP, bytes, f) ==
    LET Advanced(r) ==
            [p |-> f.p + 8 * 3, q |-> f.q - 8 * 3, state |-> r.state,
             ring_prev |-> f.ring_prev, rd |-> r.rd, ran |-> TRUE]
    IN  IF f.q >= 8 * 3
        THEN Advanced(_museair_layer_3(BFast, BSWAP, f.state, bytes, f.p))
        ELSE [p |-> f.p, q |-> f.q, state |-> f.state,
              ring_prev |-> f.ring_prev, rd |-> {}, ran |-> FALSE]

RECURSIVE Loop12(_, _, _, _)
\* lines 369-373: do { body } while (q >= 8 * 12)
Loop12(BFast, BSWAP, bytes, f) ==
    LET While(g) == IF Loop12Again(g.q) THEN Loop12(BFast, BSWAP, bytes, g) ELSE g
    IN  While(Loop12Body(BFast, BSWAP, bytes, f))

_museair_tower_loong(BFast, BSWAP, bytes, len, seed) ==
    LET Twisted(t) == _museair_layer_f(BFast, len, t.i, t.j, t.k)
        TailFolded(f3) == Twisted(_museair_layer_0(BSWAP, f3.state, bytes, f3.p, f3.q, len))
        Remainder(f1) == TailFolded(Stage3(BFast, BSWAP, bytes, Stage6(BFast, BSWAP, bytes, f1)))
        Looped(f0) ==
            Remainder(IF f0.q >= 8 * 12
                      THEN RingClose(Loop12(BFast, BSWAP, bytes, f0))
                      ELSE f0)
    IN  Looped(TowerInit(len, seed))

(***************************************************************************)
(* The dispatchers and the four entry points.                              *)
(***************************************************************************)
_museair_hash_short(BSWAP, bytes, len, seed) ==
    LET Epilogue(t) == _museair_epi_short(t.i, t.j)
    IN  Epilogue(_museair_tower_short(BSWAP, bytes, len, seed))

_museair_hash_short_128(BFast, BSWAP, bytes, len, seed) ==
    LET Epilogue(t) == _museair_epi_short_128(BFast, t.i, t.j)
    IN  Epilogue(_museair_tower_short(BSWAP, bytes, len, seed))

_museair_hash_loong(BFast, BSWAP, bytes, len, seed) ==
    LET Epilogue(t) == _museair_epi_loong(BFast, t.i, t.j, t.k)
    IN  Epilogue(_museair_tower_loong(BFast, BSWAP, bytes, len, seed))

_museair_hash_loong_128(BFast, BSWAP, bytes, len, seed) ==
    LET Epilogue(t) == _museair_epi_loong_128(BFast, t.i, t.j, t.k)
    IN  Epilogue(_museair_tower_loong(BFast, BSWAP, bytes, len, seed))

\* the cutoff one too low: 16 bytes take the long path
IsShort_Below16(len) == len < 16

\* the cutoff between the short and the long path
IsShort(len) == len <= 16

\* the big-endian host forgets to swap the accumulator back
Finish_NoSwap(BSWAP, w) == w

\* lines 529-531 and 543-546: the accumulator as it is returned
Finish(BSWAP, w) == IF BSWAP > 0 THEN _museair_bswap_64(w) ELSE w

\* the 64-bit short path taking the mode flag: the low word of the 128-bit
\* short path, whose epilogue has a fast variant
_museair_hash_ModedShort(BFast, BSWAP, in, len, seed) ==
    LET Returned(r) == Finish(BSWAP, r.i)
    IN  Returned(IF IsShort(len)
                 THEN _museair_hash_short_128(BFast, BSWAP, in, len, seed)
                 ELSE _museair_hash_loong(BFast, BSWAP, in, len, seed))

_museair_hash(BFast, BSWAP, in, len, seed) ==
    LET r == IF IsShort(len)
             THEN _museair_hash_short(BSWAP, in, len, seed)
             ELSE _museair_hash_loong(BFast, BSWAP, in, len, seed)
    IN  Finish(BSWAP, r.i)

_museair_hash_128(BFast, BSWAP, in, len, seed) ==
    LET Returned(r) == [ret |-> Finish(BSWAP, r.i), upper_half |-> Finish(BSWAP, r.j)]
    IN  Returned(IF IsShort(len)
                 THEN _museair_hash_short_128(BFast, BSWAP, in, len, seed)
                 ELSE _museair_hash_loong_128(BFast, BSWAP, in, len, seed))

museair_hash(BSWAP, in, len, seed) == _museair_hash(FALSE, BSWAP, in, len, seed)

museair_hash_128(BSWAP, in, len, seed) == _museair_hash_128(FALSE, BSWAP, in, len, seed)

museair_bfast_hash(BSWAP, in, len, seed) == _museair_hash(TRUE, BSWAP, in, len, seed)

museair_bfast_hash_128(BSWAP, in, len, seed) == _museair_hash_128(TRUE, BSWAP, in, len, seed)

(***************************************************************************)
(* One call of an entry point, as a state machine.  BFast and bits select  *)
(* the entry point, BSWAP the host; in, len and seed are the arguments.    *)
(* pc is the position in the call; p, q, state, ring_prev are the locals   *)
(* of _museair_tower_loong, lo and hi those of _museair_layer_12, i, j, k  *)
(* the accumulators.  rd collects every offset of `in` that was read and   *)
(* stages the functions that ran, in order.                                *)
(***************************************************************************)
VARIABLES BFast, bits, BSWAP, in, len, seed,
          pc, p, q, state, ring_prev, lo, hi, i, j, k,
          rd, stages, ret, upper_half,
          key, hashes, total, ki, verification    \* ComputedVerifyImpl's locals (ki is its i)

args == <<BFast, bits, BSWAP, in, len, seed>>

call == <<pc, p, q, state, ring_prev, lo, hi, i, j, k, rd, stages, ret, upper_half>>

harness == <<key, hashes, total, ki, verification>>

vars == <<args, call, harness>>

\* the arguments the model draws from
Seeds == { W64(\h0123, \h4567, \h89ab, \hcdef), W64(\hffff, \hffff, \hffff, \hffff) }

Buffer(n) == [x \in 1..n |-> (37 * (x - 1) + 11) % 256]

Init ==
    /\ BFast \in BOOLEAN
    /\ bits \in {64, 128}
    /\ BSWAP \in {0, 1}
    /\ len \in 0..MaxLen
    /\ in = Buffer(len)
    /\ seed \in Seeds
    /\ pc = "call"
    /\ p = Uninit /\ q = Uninit /\ state = Uninit /\ ring_prev = Uninit
    /\ lo = Uninit /\ hi = Uninit
    /\ i = Uninit /\ j = Uninit /\ k = Uninit
    /\ rd = {}
    /\ stages = <<>>
    /\ ret = Uninit /\ upper_half = Uninit
    /\ key = Uninit /\ hashes = Uninit /\ total = Uninit /\ ki = 0 /\ verification = Uninit

\* lines 524-525 / 538-539 and 486 / 495
TowerShort ==
    /\ pc = "call"
    /\ IsShort(len)
    /\ LET Assign(t) ==
               /\ i' = t.i
               /\ j' = t.j
               /\ rd' = rd \cup t.rd
       IN  Assign(_museair_tower_short(BSWAP, in, len, seed))
    /\ stages' = Append(stages, "tower_short")
    /\ pc' = "epi_short"
    /\ UNCHANGED harness
    /\ UNCHANGED <<args, p, q, state, ring_prev, lo, hi, k, ret, upper_half>>

\* line 487 / 496
EpiShort ==
    /\ pc = "epi_short"
    /\ LET Assign(e) ==
               /\ i' = e.i
               /\ j' = e.j
       IN  Assign(IF bits = 64 THEN _museair_epi_short(i, j)
                               ELSE _museair_epi_short_128(BFast, i, j))
    /\ stages' = Append(stages, IF bits = 64 THEN "epi_short" ELSE "epi_short_128")
    /\ pc' = "return"
    /\ UNCHANGED harness
    /\ UNCHANGED <<args, p, q, state, ring_prev, lo, hi, k, rd, ret, upper_half>>

\* lines 526-527 / 540-541 and 358-368
TowerLoongInit ==
    /\ pc = "call"
    /\ ~IsShort(len)
    /\ LET Assign(f) ==
               /\ p' = f.p
               /\ q' = f.q
               /\ state' = f.state
               /\ ring_prev' = f.ring_prev
               /\ pc' = IF f.q >= 8 * 12 THEN "layer_12" ELSE "layer_6"
       IN  Assign(TowerInit(len, seed))
    /\ stages' = Append(stages, "tower_loong")
    /\ UNCHANGED harness
    /\ UNCHANGED <<args, lo, hi, i, j, k, rd, ret, upper_half>>

\* lines 369-373: one pass of the loop
Layer12 ==
    /\ pc = "layer_12"
    /\ LET Assign(f) ==
               /\ p' = f.p
               /\ q' = f.q
               /\ state' = f.state
               /\ ring_prev' = f.ring_prev
               /\ lo' = f.lo
               /\ hi' = f.hi
               /\ rd' = rd \cup f.rd
               /\ pc' = IF Loop12Again(f.q) THEN "layer_12" ELSE "ring_close"
       IN  Assign(Loop12Body(BFast, BSWAP, in,
                             [p |-> p, q |-> q, state |-> state, ring_prev |-> ring_prev]))
    /\ stages' = Append(stages, "layer_12")
    /\ UNCHANGED harness
    /\ UNCHANGED <<args, i, j, k, ret, upper_half>>

\* line 374
RingCloseStep ==
    /\ pc = "ring_close"
    /\ state' = RingClose([p |-> p, q |-> q, state |-> state, ring_prev |-> ring_prev]).state
    /\ stages' = Append(stages, "ring_close")
    /\ pc' = "layer_6"
    /\ UNCHANGED harness
    /\ UNCHANGED <<args, p, q, ring_prev, lo, hi, i, j, k, rd, ret, upper_half>>

\* lines 377-381
Layer6 ==
    /\ pc = "layer_6"
    /\ LET Assign(f) ==
               /\ p' = f.p
               /\ q' = f.q
               /\ state' = f.state
               /\ rd' = rd \cup f.rd
               /\ stages' = IF f.ran THEN Append(stages, "layer_6") ELSE stages
       IN  Assign(Stage6(BFast, BSWAP, in,
                         [p |-> p, q |-> q, state |-> state, ring_prev |-> ring_prev]))
    /\ pc' = "layer_3"
    /\ UNCHANGED harness
    /\ UNCHANGED <<args, ring_prev, lo, hi, i, j, k, ret, upper_half>>

\* lines 383-387
Layer3 ==
    /\ pc = "layer_3"
    /\ LET Assign(f) ==
               /\ p' = f.p
               /\ q' = f.q
               /\ state' = f.state
               /\ rd' = rd \cup f.rd
               /\ stages' = IF f.ran THEN Append(stages, "layer_3") ELSE stages
       IN  Assign(Stage3(BFast, BSWAP, in,
                         [p |-> p, q |-> q, state |-> state, ring_prev |-> ring_prev]))
    /\ pc' = "layer_0"
    /\ UNCHANGED harness
    /\ UNCHANGED <<args, ring_prev, lo, hi, i, j, k, ret, upper_half>>

\* line 389
Layer0 ==
    /\ pc = "layer_0"
    /\ LET Assign(t) ==
               /\ i' = t.i
               /\ j' = t.j
               /\ k' = t.k
               /\ state' = t.state
               /\ rd' = rd \cup t.rd
       IN  Assign(_museair_layer_0(BSWAP, state, in, p, q, len))
    /\ stages' = Append(stages, "layer_0")
    /\ pc' = "layer_f"
    /\ UNCHANGED harness
    /\ UNCHANGED <<args, p, q, ring_prev, lo, hi, ret, upper_half>>

\* line 390, first half: lines 324-328
LayerFTwistStep ==
    /\ pc = "layer_f"
    /\ LET Assign(t) ==
               /\ i' = t.i
               /\ j' = t.j
               /\ k' = t.k
       IN  Assign(LayerFTwist(len, i, j, k))
    /\ stages' = Append(stages, "layer_f")
    /\ pc' = "layer_f_mul"
    /\ UNCHANGED harness
    /\ UNCHANGED <<args, p, q, state, ring_prev, lo, hi, rd, ret, upper_half>>

\* line 390, second half: lines 330-346
LayerFMulStep ==
    /\ pc = "layer_f_mul"
    /\ LET Assign(t) ==
               /\ i' = t.i
               /\ j' = t.j
               /\ k' = t.k
       IN  Assign(LayerFMul(BFast, i, j, k))
    /\ pc' = "epi_loong"
    /\ UNCHANGED harness
    /\ UNCHANGED <<args, p, q, state, ring_prev, lo, hi, rd, stages, ret, upper_half>>

\* line 507 / 517
EpiLoong ==
    /\ pc = "epi_loong"
    /\ LET Assign(e) ==
               /\ i' = e.i
               /\ j' = e.j
               /\ k' = e.k
       IN  Assign(IF bits = 64 THEN _museair_epi_loong(BFast, i, j, k)
                               ELSE _museair_epi_loong_128(BFast, i, j, k))
    /\ stages' = Append(stages, IF bits = 64 THEN "epi_loong" ELSE "epi_loong_128")
    /\ pc' = "return"
    /\ UNCHANGED harness
    /\ UNCHANGED <<args, p, q, state, ring_prev, lo, hi, rd, ret, upper_half>>

\* lines 529-532 / 543-548
Return ==
    /\ pc = "return"
    /\ ret' = Finish(BSWAP, i)
    /\ upper_half' = IF bits = 128 THEN Finish(BSWAP, j) ELSE upper_half
    /\ pc' = "done"
    /\ UNCHANGED harness
    /\ UNCHANGED <<args, p, q, state, ring_prev, lo, hi, i, j, k, rd, stages>>

Next ==
    \/ TowerShort
    \/ EpiShort
    \/ TowerLoongInit
    \/ Layer12
    \/ RingCloseStep
    \/ Layer6
    \/ Layer3
    \/ Layer0
    \/ LayerFTwistStep
    \/ LayerFMulStep
    \/ EpiLoong
    \/ Return

Spec == Init /\ [][Next]_vars

(***************************************************************************)
(* selftests.c: ComputedVerifyImpl(hashbits, HASH).  bits and BFast name   *)
(* the entry point under test; every call of HASH runs the call's own      *)
(* steps above, from pc = "call" to pc = "done".                           *)
(***************************************************************************)
VerifyKeys == 256

Zeros(m) == [x \in 1..m |-> 0]

\* a digest word as it lies in the host's memory
MemBytes(HostBSWAP, w) == IF HostBSWAP = 0 THEN w ELSE _museair_bswap_64(w)

\* HASH(in, len, seed, out): the bytes left at out once the call has returned,
\* the returned word first and, for a 128-bit digest, the upper half after it
DigestBytes ==
    IF bits = 64 THEN MemBytes(BSWAP, ret)
                 ELSE MemBytes(BSWAP, ret) \o MemBytes(BSWAP, upper_half)

\* the bytes d as the uint64_t-sized groups they occupy, and back: hashes is
\* kept in groups of 8 bytes, group w holding the bytes 8 * w .. 8 * w + 7
Words(d) == [w \in 1..(Len(d) \div 8) |-> SubSeq(d, 8 * w - 7, 8 * w)]

Bytes(ws) ==
    LET Laid(f) == SubSeq(f, 1, 8 * Len(ws))
    IN  Laid([x \in 1..(8 * Len(ws)) |-> ws[((x - 1) \div 8) + 1][((x - 1) % 8) + 1]])

\* buf with d stored from offset o on
Store(buf, o, d) == SubSeq(buf, 1, o) \o d \o SubSeq(buf, o + Len(d) + 1, Len(buf))

\* main runs the sweep on a little-endian host
VerifyInit ==
    /\ BFast \in BOOLEAN
    /\ bits \in {64, 128}
    /\ BSWAP = 0
    /\ in = <<>> /\ len = 0 /\ seed = U64(0)
    /\ pc = "verify_loop"
    /\ p = Uninit /\ q = Uninit /\ state = Uninit /\ ring_prev = Uninit
    /\ lo = Uninit /\ hi = Uninit
    /\ i = Uninit /\ j = Uninit /\ k = Uninit
    /\ rd = {}
    /\ stages = <<>>
    /\ ret = Uninit /\ upper_half = Uninit
    /\ key = Zeros(VerifyKeys)
    /\ hashes = Words(Zeros((bits \div 8) * VerifyKeys))
    /\ total = Zeros(bits \div 8)
    /\ ki = 0
    /\ verification = Uninit

\* a call of HASH is entered: its arguments, and locals not yet assigned
Enter(bytes, length, sd) ==
    /\ in' = bytes /\ len' = length /\ seed' = sd
    /\ pc' = "call"
    /\ p' = Uninit /\ q' = Uninit /\ state' = Uninit /\ ring_prev' = Uninit
    /\ lo' = Uninit /\ hi' = Uninit
    /\ i' = Uninit /\ j' = Uninit /\ k' = Uninit
    /\ rd' = {}
    /\ stages' = <<>>
    /\ ret' = Uninit /\ upper_half' = Uninit
    /\ UNCHANGED <<BFast, bits, BSWAP>>

\* lines 45-48: a pass of the loop calls HASH(key, i, 256 - i, ...)
VerifyCall ==
    /\ pc = "verify_loop"
    /\ ki < VerifyKeys
    /\ Enter(key, ki, U64(VerifyKeys - ki))
    /\ UNCHANGED harness

\* lines 48-49: the call has left its digest at &hashes[i * hashbytes];
\* key[i] = i, and the loop goes on
VerifyLoop ==
    /\ pc = "done"
    /\ ki < VerifyKeys
    /\ hashes' = Store(hashes, ki * (bits \div 64), Words(DigestBytes))
    /\ key' = [key EXCEPT ![ki + 1] = ki % 256]
    /\ ki' = ki + 1
    /\ pc' = "verify_loop"
    /\ UNCHANGED <<args, p, q, state, ring_prev, lo, hi, i, j, k, rd, stages,
                   ret, upper_half, total, verification>>

\* lines 53-55: HASH(hashes, hashbytes * 256, 0, total) is called
VerifyTotalCall ==
    /\ pc = "verify_loop"
    /\ ki = VerifyKeys
    /\ Enter(Bytes(hashes), (bits \div 8) * VerifyKeys, U64(0))
    /\ UNCHANGED harness

\* line 55: the call has left its digest at total
VerifyTotal ==
    /\ pc = "done"
    /\ ki = VerifyKeys
    /\ total' = DigestBytes
    /\ pc' = "verify_value"
    /\ UNCHANGED <<args, p, q, state, ring_prev, lo, hi, i, j, k, rd, stages,
                   ret, upper_half, key, hashes, ki, verification>>

\* line 59: the uint32_t whose byte x is total[x], least significant first
VerifyValue ==
    /\ pc = "verify_value"
    /\ verification' = <<total[1], total[2], total[3], total[4]>>
    /\ pc' = "verified"
    /\ UNCHANGED <<args, p, q, state, ring_prev, lo, hi, i, j, k, rd, stages,
                   ret, upper_half, key, hashes, total, ki>>

VerifyNext ==
    \/ VerifyCall
    \/ Next
    \/ VerifyLoop
    \/ VerifyTotalCall
    \/ VerifyTotal
    \/ VerifyValue

VerifySpec == VerifyInit /\ [][VerifyNext]_vars

(***************************************************************************)
(* _museair_chixx on its own: i, j, k are the three words its pointers     *)
(* name, as in _museair_layer_f; it is applied to them, and then to its    *)
(* own result.                                                             *)
(***************************************************************************)
\* the words the model draws t, u, v from; the first five put every
\* combination of bits of (t, u, v) in some bit position
ChiWords ==
    { W64(\h0000, \h0000, \h0000, \h0000), W64(\hffff, \hffff, \hffff, \hffff),
      W64(\h0f0f, \h0f0f, \h0f0f, \h0f0f), W64(\h3333, \h3333, \h3333, \h3333),
      W64(\h5555, \h5555, \h5555, \h5555),
      MUSEAIR_RING_PREV, SECRET(0), SECRET(1) }

ChiInit ==
    /\ BFast = FALSE /\ bits = 64 /\ BSWAP = 0
    /\ in = <<>> /\ len = 0 /\ seed = U64(0)
    /\ pc = "chixx"
    /\ p = Uninit /\ q = Uninit /\ state = Uninit /\ ring_prev = Uninit
    /\ lo = Uninit /\ hi = Uninit
    /\ i \in ChiWords /\ j \in ChiWords /\ k \in ChiWords
    /\ rd = {}
    /\ stages = <<>>
    /\ ret = Uninit /\ upper_half = Uninit
    /\ key = Uninit /\ hashes = Uninit /\ total = Uninit /\ ki = 0 /\ verification = Uninit

\* lines 173-180: _museair_chixx(&i, &j, &k), a first and a second time
ChixxStep ==
    LET Assign(c) ==
            /\ i' = c.t
            /\ j' = c.u
            /\ k' = c.v
    IN  /\ pc = "chixx"
        /\ Len(stages) < 2
        /\ Assign(_museair_chixx(i, j, k))
        /\ stages' = Append(stages, "chixx")
        /\ UNCHANGED harness
        /\ UNCHANGED <<args, pc, p, q, state, ring_prev, lo, hi, rd, ret, upper_half>>

ChiNext == ChixxStep

ChiSpec == ChiInit /\ [][ChiNext]_vars

\* a uint32_t written as two 16-bit groups, most significant first
W32(h1, h0) == <<h0 % 256, h0 \div 256, h1 % 256, h1 \div 256>>

\* lines 71-78: the value main expects of each entry point
Expected(hashbits, fast) ==
    CASE hashbits = 64 /\ ~fast -> W32(\h46B2, \hD34D)
      [] hashbits = 128 /\ ~fast -> W32(\hCABA, \hA4CD)
      [] hashbits = 64 /\ fast -> W32(\h98CD, \hFE3E)
      [] hashbits = 128 /\ fast -> W32(\h81D3, \h0B6E)

\* C1: for each of the four entry points, the sweep over the keys 0..k-1
\* (k = 0..255, seed 256 - k), the 256 digests concatenated and hashed with
\* seed 0 through the same entry point, yields the value main expects.
C1_Verification ==
    pc = "verified" => verification = Expected(bits, BFast)

C1_Witness ==
    /\ pc = "verified"
    /\ bits = 128 /\ BFast
    /\ ki = VerifyKeys
    /\ verification = W32(\h81D3, \h0B6E)

(***************************************************************************)
(* The properties of one call.                                             *)
(***************************************************************************)
ShortStages == {"tower_short", "epi_short", "epi_short_128"}

LongStages == {"tower_loong", "layer_12", "ring_close", "layer_6", "layer_3",
               "layer_0", "layer_f", "epi_loong", "epi_loong_128"}

StagesIn(S) == \A x \in 1..Len(stages) : stages[x] \in S

Has(stage) == \E x \in 1..Len(stages) : stages[x] = stage

\* C2: the short path is taken if and only if len <= 16: a call of 0..16 bytes
\* runs the short tower and the short epilogue only, a call of 17 bytes or more
\* the block compressor, the final twist and the long epilogue only, and no
\* call runs both or neither.
C2_ShortIffLe16 ==
    /\ len <= 16 => StagesIn(ShortStages)
    /\ len >= 17 => StagesIn(LongStages)
    /\ pc = "done" /\ len <= 16 =>
           stages \in {<<"tower_short", "epi_short">>, <<"tower_short", "epi_short_128">>}
    /\ pc = "done" /\ len >= 17 =>
           /\ stages[1] = "tower_loong"
           /\ Has("layer_0") /\ Has("layer_f")
           /\ stages[Len(stages)] \in {"epi_loong", "epi_loong_128"}

C2_Witness ==
    /\ pc = "done"
    /\ len = 16
    /\ bits = 64
    /\ stages = <<"tower_short", "epi_short">>

\* C3: every offset read from the input lies in [0, len), and a call with
\* len = 0 reads no byte at all.
C3_ReadsInBounds ==
    /\ \A o \in rd : 0 <= o /\ o < len
    /\ len = 0 => rd = {}

\* a 12-word block and a 23-byte tail, every byte of which has been read
C3_Witness ==
    /\ pc = "done"
    /\ len = 119
    /\ rd = 0..118

\* the same call on a little-endian host (MUSEAIR_BSWAP = 0)
LittleEndianDigestBytes ==
    IF bits = 64
    THEN MemBytes(0, _museair_hash(BFast, 0, in, len, seed))
    ELSE LET h == _museair_hash_128(BFast, 0, in, len, seed)
         IN  MemBytes(0, h.ret) \o MemBytes(0, h.upper_half)

\* C4: the bytes of the returned digest in memory are the same on a big-endian
\* host (every read and the returned word(s) byte-swapped) as on a
\* little-endian host.
C4_SameDigestBytes ==
    pc = "done" => DigestBytes = LittleEndianDigestBytes

\* a big-endian call through the 12-word loop: the returned words are the
\* little-endian ones byte-swapped
C4_Witness ==
    /\ pc = "done"
    /\ BSWAP = 1
    /\ bits = 128
    /\ len = 100
    /\ ret # _museair_hash_128(BFast, 0, in, len, seed).ret
    /\ ret = _museair_bswap_64(_museair_hash_128(BFast, 0, in, len, seed).ret)

BlockRank(stage) ==
    CASE stage = "layer_12" -> 1
      [] stage = "layer_6" -> 2
      [] stage = "layer_3" -> 3
      [] stage = "layer_0" -> 4
      [] OTHER -> 0

Blocks == SelectSeq(stages, LAMBDA x : BlockRank(x) > 0)

\* the blocks ran in the order 12-word, 6-word, 3-word, tail, only the 12-word
\* block more than once
C5_Order ==
    \A x, y \in 1..Len(Blocks) :
        x < y => /\ BlockRank(Blocks[x]) <= BlockRank(Blocks[y])
                 /\ BlockRank(Blocks[x]) = BlockRank(Blocks[y]) => Blocks[x] = "layer_12"

C5_State ==
    len >= 17 /\ pc # "call" =>
        /\ p + q = len
        /\ C5_Order
        /\ pc = "layer_12" => q >= 96
        /\ pc = "layer_6" => q < 96
        /\ pc = "layer_3" => q < 48
        /\ pc \in {"layer_0", "layer_f", "layer_f_mul", "epi_loong", "return", "done"} =>
               0 <= q /\ q <= 23
        /\ pc = "done" => Cardinality({x \in 1..Len(stages) : stages[x] = "layer_0"}) = 1

C5_Step ==
    /\ pc = "call" /\ len >= 17 => (pc' = "layer_12" <=> len >= 96)
    /\ pc = "layer_12" =>
           /\ p' = p + 96 /\ q' = q - 96
           /\ stages' = Append(stages, "layer_12")
           /\ pc' = "layer_12" <=> q' >= 96
    /\ pc = "layer_6" =>
           IF q >= 48
           THEN p' = p + 48 /\ q' = q - 48 /\ stages' = Append(stages, "layer_6")
           ELSE UNCHANGED <<p, q, stages>>
    /\ pc = "layer_3" =>
           IF q >= 24
           THEN p' = p + 24 /\ q' = q - 24 /\ stages' = Append(stages, "layer_3")
           ELSE UNCHANGED <<p, q, stages>>
    /\ pc = "layer_0" => stages' = Append(stages, "layer_0") /\ UNCHANGED <<p, q>>

\* what is left to do: the bytes remaining, then the position in the call
StepsLeft ==
    16 * (IF pc = "call" THEN len ELSE q)
    + CASE pc = "call" -> 10
        [] pc = "layer_12" -> 9
        [] pc = "ring_close" -> 8
        [] pc = "layer_6" -> 7
        [] pc = "layer_3" -> 6
        [] pc = "layer_0" -> 5
        [] pc = "layer_f" -> 4
        [] pc = "layer_f_mul" -> 3
        [] pc = "epi_loong" -> 2
        [] pc = "return" -> 1
        [] OTHER -> 0

\* every step of a long call brings it nearer to its return
C5_Terminates ==
    len >= 17 => StepsLeft >= 0 /\ StepsLeft' < StepsLeft

\* the positions at which an action of Next is enabled: each action is enabled
\* by its pc alone, the two at "call" by either side of the cutoff
CanStep ==
    \/ pc = "call" /\ (IsShort(len) \/ ~IsShort(len))
    \/ pc \in {"epi_short", "layer_12", "ring_close", "layer_6", "layer_3", "layer_0",
               "layer_f", "layer_f_mul", "epi_loong", "return"}

\* a long call that has not returned can take a step
C5_NotStuck ==
    len >= 17 => (pc = "done" \/ CanStep)

\* C5: for len >= 17 the input is consumed by 12-word blocks while at least 96
\* bytes remain, then at most one 6-word block (iff at least 48 remain), then
\* at most one 3-word block (iff at least 24 remain), then the tail fold
\* exactly once; bytes consumed + q = len throughout, the tail fold starts
\* with 0 <= q <= 23, and the call terminates.
C5_BlockOrder ==
    /\ []C5_State
    /\ []C5_NotStuck
    /\ [][C5_Step /\ C5_Terminates]_vars

\* 191 = 96 + 48 + 24 + 23: one block of each size, then a tail of 23 bytes
C5_Witness ==
    /\ pc = "done"
    /\ len = 191
    /\ Blocks = <<"layer_12", "layer_6", "layer_3", "layer_0">>
    /\ p = 168 /\ q = 23

\* ChiMix written out on its three inputs
ChiT(t, u, v) == Xor(t, And(Not(u), v))
ChiU(t, u, v) == Xor(u, And(Not(v), t))
ChiV(t, u, v) == Xor(v, And(Not(t), u))

\* C6 as stated: in the final twist k is XORed with the length before ChiMix,
\* which then works on (i, j, k XOR len); the rotations come afterwards.
C6_XorBeforeChi ==
    [][pc = "layer_f" =>
         LET kl == Xor(k, U64(len))
         IN  /\ i' = _museair_rotl(ChiT(i, j, kl), len % 64)
             /\ j' = _museair_rotr(ChiU(i, j, kl), len % 64)
             /\ k' = ChiV(i, j, kl)]_vars

\* C6 amended: in the final twist ChiMix is applied to (i, j, k) as the tail
\* fold left them; i is then rotated left and j right by len & 63, and the
\* length is XORed into k after ChiMix; the three products come only after.
C6_ChiBeforeXor ==
    [][pc = "layer_f" =>
         /\ i' = _museair_rotl(ChiT(i, j, k), len % 64)
         /\ j' = _museair_rotr(ChiU(i, j, k), len % 64)
         /\ k' = Xor(ChiV(i, j, k), U64(len))
         /\ pc' = "layer_f_mul"]_vars

\* the twist has run on a 100-byte input and rotated by 36
C6_Witness ==
    /\ pc = "layer_f_mul"
    /\ len = 100
    /\ stages[Len(stages)] = "layer_f"

\* the 12-word block at p, pair x = 0..5 of (0,1),(1,2),(2,3),(3,4),(4,5),(5,0):
\* the two words the pair multiplies, the carry coming in, and the first
\* word of the pair as the pair's update left it
BlockWord(x) == _museair_read_u64(BSWAP, in, p + 8 * x).v

PairFirst(x) ==
    IF x = 0 THEN Xor(state[1], BlockWord(0))
             ELSE Xor(Xor(state[x + 1], BlockWord(2 * x - 1)), BlockWord(2 * x))

PairSecond(x) ==
    IF x = 5 THEN state'[1] ELSE Xor(state[x + 2], BlockWord(2 * x + 1))

PairCarry(x) == IF x = 0 THEN ring_prev ELSE lo'[x]

PairNew(x) == IF x = 0 THEN Xor(state'[1], BlockWord(11)) ELSE state'[x + 1]

PairProduct(x) ==
    [lo |-> lo'[x + 1], hi |-> hi'[x + 1]] = _museair_wmul(PairFirst(x), PairSecond(x))

\* C7 as stated: in the fast variant the pair's first word becomes the low half
\* of the pair's own product; in the full variant old + (carry XOR high half).
C7_FastTakesLow ==
    [][pc = "layer_12" =>
         \A x \in 0..5 :
             /\ PairProduct(x)
             /\ PairNew(x) = IF BFast THEN lo'[x + 1]
                                      ELSE Add(PairFirst(x), Xor(PairCarry(x), hi'[x + 1]))]_vars

\* C7 amended: in the fast variant the pair's first word becomes ring_carry_in
\* XOR high_half of the pair's own product (the old value dropped, the carry
\* kept); in the full variant it is old value + (ring_carry_in XOR high_half)
\* modulo 2^64.  The carry into pair (0,1) is ring_prev, into every other pair
\* the low half of the pair before it.
C7_FastTakesCarryXorHigh ==
    [][pc = "layer_12" =>
         \A x \in 0..5 :
             /\ PairProduct(x)
             /\ PairNew(x) = IF BFast THEN Xor(PairCarry(x), hi'[x + 1])
                                      ELSE Add(PairFirst(x), Xor(PairCarry(x), hi'[x + 1]))]_vars

\* a fast call after its second 12-word block
C7_Witness ==
    /\ BFast
    /\ len = 200
    /\ pc = "ring_close"
    /\ p = 192
    /\ state[2] = Xor(lo[1], hi[2])
    /\ state[2] # lo[2]

\* the running state as _museair_tower_loong set it up, before any block or
\* the tail fold has used it
StateSetUp == pc \in {"layer_12", "layer_6"} /\ stages = <<"tower_loong">>

\* C8 as stated: for every len >= 17 each of the six state words is a secret
\* word combined with the seed.
C8_AllSixSeeded ==
    StateSetUp =>
        state = <<Add(SECRET(0), seed), Sub(SECRET(1), seed), Xor(SECRET(2), seed),
                  Add(SECRET(3), seed), Sub(SECRET(4), seed), Xor(SECRET(5), seed)>>

\* C8 amended: for every len >= 17, state[0] = S0 + seed, state[1] = S1 - seed,
\* state[2] = S2 ^ seed; state[3] = S3 + seed, state[4] = S4 - seed,
\* state[5] = S5 ^ seed only when len >= 96, and for 17 <= len <= 95 they are
\* the bare secret words S3, S4, S5.
C8_SeededState ==
    StateSetUp =>
        /\ len >= 17
        /\ state[1] = Add(SECRET(0), seed)
        /\ state[2] = Sub(SECRET(1), seed)
        /\ state[3] = Xor(SECRET(2), seed)
        /\ len >= 96 => /\ state[4] = Add(SECRET(3), seed)
                        /\ state[5] = Sub(SECRET(4), seed)
                        /\ state[6] = Xor(SECRET(5), seed)
        /\ len <= 95 => /\ state[4] = SECRET(3)
                        /\ state[5] = SECRET(4)
                        /\ state[6] = SECRET(5)

C8_Witness ==
    /\ StateSetUp
    /\ len = 95
    /\ state[1] = Add(SECRET(0), seed)
    /\ state[4] = SECRET(3)
    /\ state[4] # Add(SECRET(3), seed)

\* the words the tail fold reads at p, before the state is folded in
TailWords == Layer0Read(BSWAP, in, p, q)

\* C9: the tail fold takes the ChiMix branch (chi on (state[0],state[2],state[4])
\* and on (state[1],state[3],state[5]), then i ^= state[0]+state[1],
\* j ^= state[2]+state[3], k ^= state[4]+state[5]) iff the whole length is
\* >= 24, whatever q is; for 17..23 it XORs state[0], state[1], state[2] into
\* i, j, k with no ChiMix.
C9_ChiIffLen24 ==
    [][pc = "layer_0" =>
         IF len >= 24
         THEN /\ state' = <<ChiT(state[1], state[3], state[5]), ChiT(state[2], state[4], state[6]),
                            ChiU(state[1], state[3], state[5]), ChiU(state[2], state[4], state[6]),
                            ChiV(state[1], state[3], state[5]), ChiV(state[2], state[4], state[6])>>
              /\ i' = Xor(TailWords.i, Add(state'[1], state'[2]))
              /\ j' = Xor(TailWords.j, Add(state'[3], state'[4]))
              /\ k' = Xor(TailWords.k, Add(state'[5], state'[6]))
         ELSE /\ len \in 17..23
              /\ state' = state
              /\ i' = Xor(TailWords.i, state[1])
              /\ j' = Xor(TailWords.j, state[2])
              /\ k' = Xor(TailWords.k, state[3])]_vars

\* 24 bytes: nothing remains for the tail (q = 0 < 24), and the fold went
\* through ChiMix: with no tail bytes i is state[0] + state[1] of the mixed state
C9_Witness ==
    /\ pc = "layer_f"
    /\ len = 24
    /\ q = 0
    /\ i = Add(state[1], state[2])
    /\ k = Add(state[5], state[6])

\* the input with the byte at offset x changed in every bit
Flip(x) == [in EXCEPT ![x + 1] = 255 - @]

\* the byte at offset x is packed into word i (word j) of the short packing:
\* changing it changes the word.  _museair_tower_short XORs values that do not
\* depend on the bytes into the words _museair_read_short packed.
PackedIntoI(x) == _museair_tower_short(BSWAP, Flip(x), len, seed).i # i

PackedIntoJ(x) == _museair_tower_short(BSWAP, Flip(x), len, seed).j # j

\* C10 as stated: for every len in 4..16 every byte of the input is packed into
\* word i and also into word j.
C10_EveryByteInBoth ==
    pc = "epi_short" /\ len \in 4..16 =>
        \A x \in 0..(len - 1) : PackedIntoI(x) /\ PackedIntoJ(x)

\* C10 amended: for every len in 4..8 every byte of the input is packed into
\* word i and also into word j; for every len in 9..16 every byte is packed
\* into at least one of the two words, and not every byte into both.
C10_EveryByteInOne ==
    pc = "epi_short" =>
        /\ len \in 4..8 => \A x \in 0..(len - 1) : PackedIntoI(x) /\ PackedIntoJ(x)
        /\ len \in 9..16 =>
               /\ \A x \in 0..(len - 1) : PackedIntoI(x) \/ PackedIntoJ(x)
               /\ \E x \in 0..(len - 1) : ~(PackedIntoI(x) /\ PackedIntoJ(x))

\* 9 bytes: byte 0 is in i only, byte 4 in j only
C10_Witness ==
    /\ pc = "epi_short"
    /\ len = 9
    /\ PackedIntoI(0) /\ ~PackedIntoJ(0)
    /\ PackedIntoJ(4) /\ ~PackedIntoI(4)

\* C11 (as the code has it): ChiMix is an involution.  Applied to its own
\* result it gives back the words it was applied to, for every (t, u, v):
\* there are no words for which applying it twice does not return them.
C11_Involution ==
    [][ChixxStep => _museair_chixx(i', j', k') = [t |-> i, u |-> j, v |-> k]]_vars

\* C11 as stated: among the words drawn there are (t, u, v) that two
\* applications of ChiMix do not give back.
C11_NotInvolution ==
    LET Twice(c) == _museair_chixx(c.t, c.u, c.v)
    IN  pc = "chixx" =>
            \E t \in ChiWords, u \in ChiWords, v \in ChiWords :
                Twice(_museair_chixx(t, u, v)) # [t |-> t, u |-> u, v |-> v]

\* ChiMix has been applied twice to words that one application changes
C11_Witness ==
    /\ pc = "chixx"
    /\ stages = <<"chixx", "chixx">>
    /\ i = SECRET(0) /\ j = SECRET(1) /\ k = MUSEAIR_RING_PREV
    /\ _museair_chixx(i, j, k) # [t |-> i, u |-> j, v |-> k]

\* the closing folds that have run
Folds(s) == Cardinality({x \in 1..Len(s) : s[x] = "ring_close"})

\* A step of the long path as far as the ring carry goes; word0 is what state
\* word 0 holds at the 6-word stage when the loop body never ran.
\*  - a 12-word block leaves in ring_prev the low half of its (5,0) product;
\*  - the closing fold XORs the carry of the last block into state word 0,
\*    leaves the other five words alone, and has not run before;
\*  - the 6-word stage starts after exactly one fold when the loop ran;
\*  - no other step folds.
RingStep(word0) ==
    /\ pc = "layer_12" => PairProduct(5) /\ ring_prev' = lo'[6]
    /\ pc = "ring_close" =>
           /\ len >= 8 * 12
           /\ state' = [state EXCEPT ![1] = Xor(state[1], lo[6])]
           /\ Folds(stages) = 0 /\ Folds(stages') = 1
           /\ pc' = "layer_6"
    /\ pc = "layer_6" =>
           /\ len >= 8 * 12 => Folds(stages) = 1 /\ stages[Len(stages)] = "ring_close"
           /\ len < 8 * 12 => state[1] = word0
    /\ pc # "ring_close" => Folds(stages') = Folds(stages)

\* C12 as stated: the ring carry is XORed into state word 0 once before the
\* 6-word stage for every long input; when the loop body ran zero times
\* (17 <= len <= 95) the carry is the ring-prev constant.
C12_FoldedForEveryLen ==
    [][RingStep(Xor(Add(SECRET(0), seed), MUSEAIR_RING_PREV))]_vars

\* C12 amended: for len >= 96 the low half of the last (5,0) multiplication of
\* the last 12-word block is XORed into state word 0 exactly once before the
\* 6-word stage; for 17 <= len <= 95 the loop body runs zero times, nothing is
\* XORed into state word 0 and the ring-prev constant is not used: the 6-word
\* stage starts from SECRET[0] + seed.
C12_FoldedOnlyAfterLoop ==
    [][RingStep(Add(SECRET(0), seed))]_vars

\* two 12-word blocks, then the fold of the second block's carry
C12_Witness ==
    /\ pc = "layer_6"
    /\ len = 200
    /\ stages = <<"tower_loong", "layer_12", "layer_12", "ring_close">>
    /\ ring_prev = lo[6]
    /\ ring_prev # MUSEAIR_RING_PREV

\* C13: for every input with len <= 16 and every seed the standard and the
\* fast 64-bit entry points return the same digest, and it is the digest the
\* call returns in either mode.
C13_ShortModesAgree ==
    pc = "done" /\ bits = 64 /\ len <= 16 =>
        /\ museair_hash(BSWAP, in, len, seed) = museair_bfast_hash(BSWAP, in, len, seed)
        /\ ret = museair_hash(BSWAP, in, len, seed)

\* a fast 64-bit call on 16 bytes has returned the standard digest, on an
\* input for which the two 128-bit entry points differ
C13_Witness ==
    /\ pc = "done"
    /\ bits = 64
    /\ BFast
    /\ len = 16
    /\ stages = <<"tower_short", "epi_short">>
    /\ ret = museair_hash(BSWAP, in, len, seed)
    /\ museair_hash_128(BSWAP, in, len, seed) # museair_bfast_hash_128(BSWAP, in, len, seed)

\* the state machine returns what the composed functions return
StepsAgree ==
    pc = "done" =>
        IF bits = 64
        THEN ret = _museair_hash(BFast, BSWAP, in, len, seed)
        ELSE [ret |-> ret, upper_half |-> upper_half]
                 = _museair_hash_128(BFast, BSWAP, in, len, seed)
====
